---- MODULE Spec2Model ----
(***************************************************************************)
(* Model of gomu's MU.Run / MU.RunThen lifecycle (src/sort/fileNode.go):   *)
(* the caller thread (Run -> waitThenClean), the orchestrator goroutine    *)
(* (performThenClose -> perform), the sizedwaitgroup pool tasks, the       *)
(* closer and the package-level cancellation flag `closed`.               *)
(***************************************************************************)
EXTENDS Naturals, Integers, Sequences, FiniteSets, TLC

\* ------------------------------------------------------------------ bounds
NumRepos == 3      \* repositories found by PopulateLibsFromTargets
PoolBound == 2     \* runtime.GOMAXPROCS(0)
MaxErrors == 1     \* collaborator failures injected in one run

Repos == 1..NumRepos

\* ------------------------------------------------------------- vocabulary
Actions == {"sync", "list", "pull", "replace", "reset", "test", "workflow", "secret"}

\* perform, lines 285-325: the sync pipeline in source order
Pipeline == <<"branch", "merge", "commit", "push", "pr", "rmbranch", "tag">>

VARIABLES
  action,        \* mu.Options.Action
  ignoreWarning, \* mu.Options.IgnoreWarning
  version,       \* version[r]: len(File.Version) > 0 (pinned)
  deps,          \* deps[r]: repositories of the working set r requires
  filter,        \* mu.Options.FilterDependencies
  allDirs,       \* mu.AllDirectories
  chain,         \* the list headed by fileHead, as a sequence
  depCount,      \* mu.Stats.DepCount
  flags,         \* flags[r]: status flags set on r's FileWrapper
  errors,        \* mu.Errors
  closed,        \* package variable closed
  closerMade,    \* mu.closer has been created
  closerClosed,  \* the closer has been closed (Wait is released)
  exited,        \* os.Exit was called
  pc,            \* position of the orchestrator goroutine
  itr,           \* position of itr in the chain (index - 1 == itr - 1)
  idx,           \* position of a range loop of perform over libs
  swg,           \* sizedwaitgroup: slots in use
  callerPc,      \* position of the caller of RunThen
  cleanArg,      \* argument of waitThenClean's cleanupStash call
  cleanIdx,      \* position of cleanupStash's loop in the caller
  answer,        \* reply to ShowWarning: "unasked", "yes", "no"
  exitPath,      \* how perform left: "", "cred", "secret", "cancel", "normal", "decline"
  stashCount,    \* calls of Stash per repository
  restoreCount,  \* calls of restore per repository by cleanupStash
  startCount,    \* units (pool tasks, replace/test units, pipelines) begun per repository
  endCount,      \* units ended per repository
  skipped,       \* repositories skipped as pinned by sync
  stepLog,       \* stepLog[r]: pipeline steps executed on r, in order
  readFrom,      \* readFrom[r]: repositories ModAddDeps(r) read versions of
  listed,        \* lines printed by the list action: <<index, DepCount, repo>>
  callbacks      \* invocations of RunThen's complete callback

optVars  == <<action, ignoreWarning, version, deps, filter>>
muVars   == <<allDirs, chain, depCount, flags, errors>>
syncVars == <<closed, closerMade, closerClosed, exited>>
perfVars == <<pc, itr, idx, swg, answer, exitPath>>
callVars == <<callerPc, cleanArg, cleanIdx, callbacks>>
histVars == <<stashCount, restoreCount, startCount, endCount, skipped, stepLog, readFrom, listed>>
vars == <<optVars, muVars, syncVars, perfVars, callVars, histVars>>

\* ---------------------------------------------------------------- helpers
Range(s) == {s[i] : i \in 1..Len(s)}

Min(S) == CHOOSE x \in S : \A y \in S : x <= y

\* Dependency graphs of the working set: none, the line 1 -> 2 -> ... -> N,
\* the ring 1 -> 2 -> ... -> N -> 1, and repository 1 beside a ring of the rest
NoDeps == [r \in Repos |-> {}]
LineDeps == [r \in Repos |-> IF r < NumRepos THEN {r + 1} ELSE {}]
RingDeps == [r \in Repos |-> {(r % NumRepos) + 1}]
TailRingDeps == [r \in Repos |-> IF r = 1 THEN {}
                                  ELSE IF r < NumRepos THEN {r + 1} ELSE {2}]
DepGraphs == {NoDeps, LineDeps, RingDeps, TailRingDeps}

\* Values of FilterDependencies: no filter, or the last repository's module
Filters == {{}, {NumRepos}}

\* Variant: repositories are emitted in discovery order
RECURSIVE KahnDiscoveryOrder(_, _, _)
KahnDiscoveryOrder(d, remaining, out) ==
  IF remaining = {} THEN out
  ELSE KahnDiscoveryOrder(d, remaining \ {Min(remaining)}, Append(out, Min(remaining)))

\* Kahn's ordering with ties broken by discovery order; repositories left
\* with unresolved dependencies (a cycle) are not emitted
RECURSIVE Kahn(_, _, _)
Kahn(d, remaining, out) ==
  LET ready == {r \in remaining : d[r] \cap remaining = {}}
  IN IF ready = {} THEN out
     ELSE Kahn(d, remaining \ {Min(ready)}, Append(out, Min(ready)))

\* The repositories that depend, directly or transitively, on a module of f
RECURSIVE Dependents(_, _, _)
Dependents(d, f, found) ==
  LET more == {r \in Repos : d[r] \cap (f \cup found) # {}}
  IN IF more \subseteq found THEN found ELSE Dependents(d, f, found \cup more)

\* libs.SortedRecursiveDeps / libs.SortedDirectDeps: the chain, restricted
\* to the dependents of the filter when there is one
SortedDeps(libs, d, f) ==
  LET order == Kahn(d, Range(libs), <<>>)
      keep(r) == f = {} \/ r \in Dependents(d, f, {})
  IN SelectSeq(order, keep)

\* Variant: the count is taken before the filter is applied
DepCountUnfiltered(libs, ch) == Len(libs)

\* The count returned with the chain: the size of the chain
DepCountOf(libs, ch) == Len(ch)

\* Variant: a range loop that stops after its first element
RangeDoneAfterFirst(i, libs) == i > 1

\* perform, lines 120-124: the range loop over libs is over
RangeDone(i, libs) == i > Len(libs)

\* PopulateLibsFromTargets: the discovered directories, in discovery order
Discovered == [i \in 1..NumRepos |-> i]

Inc(f, r) == [f EXCEPT ![r] = @ + 1]

\* ------------------------------------------------------------ definitions
\* Variant: test is handed to the pool like pull
IsIndependentWithTest(a) == a \in {"pull", "reset", "workflow", "test"}

\* perform, lines 213-267: the actions dispatched to the pool
IsIndependent(a) == a \in {"pull", "reset", "workflow"}

\* perform, lines 229-253: the actions run as one unit on the orchestrator
IsSequentialUnit(a) == a \in {"replace", "test"}

\* Variant: a wait group built without a limit
SwgCanAddUnbounded(cur) == TRUE

\* sizedwaitgroup.New(GOMAXPROCS): Add blocks while every slot is in use
SwgCanAdd(cur) == cur < PoolBound

\* Variant: perform returns without waiter.Wait()
SwgDrainedNoWait(cur) == TRUE

\* waiter.Wait(): returns once every slot has been released
SwgDrained(cur) == cur = 0

\* Variant: the version test of line 279 is missing
IsPinnedNever(r) == FALSE

\* perform, line 279: len(lib.File.Version) > 0
IsPinned(r) == version[r]

\* Variant: the reply to the warning is ignored
WarningNeverDeclined(ignore, ans) == FALSE

\* perform, line 182: the run is aborted
WarningDeclined(ignore, ans) == ~ignore /\ ans = "no"

\* perform, lines 287, 297, 305, 313, 320: steps preceded by `if closed`
\* (branch is preceded by the check of line 196; commit by none)
CheckedBefore(s) == s \in {"merge", "push", "pr", "rmbranch", "tag"}

\* Variant: the loop continues right after the commit
StepAfterEarlyContinue(s) ==
  CASE s = "branch"   -> "merge"
    [] s = "merge"    -> "commit"
    [] s = "commit"   -> "loop"
    [] s = "push"     -> "pr"
    [] s = "pr"       -> "rmbranch"
    [] s = "rmbranch" -> "tag"
    [] s = "tag"      -> "loop"

\* Variant: push and commit change places
StepAfterPushFirst(s) ==
  CASE s = "branch"   -> "merge"
    [] s = "merge"    -> "push"
    [] s = "push"     -> "commit"
    [] s = "commit"   -> "pr"
    [] s = "pr"       -> "rmbranch"
    [] s = "rmbranch" -> "tag"
    [] s = "tag"      -> "loop"

\* perform, lines 285-325: the step that follows s, "loop" after the last
StepAfter(s) ==
  CASE s = "branch"   -> "merge"
    [] s = "merge"    -> "commit"
    [] s = "commit"   -> "push"
    [] s = "push"     -> "pr"
    [] s = "pr"       -> "rmbranch"
    [] s = "rmbranch" -> "tag"
    [] s = "tag"      -> "loop"

\* The status flag a completed step (or unit) sets on the repository
StepFlag(s) ==
  CASE s \in {"merge", "pull", "replace"} -> {"Updated"}
    [] s = "commit" -> {"Committed"}
    [] s = "pr"     -> {"PROpened"}
    [] s = "tag"    -> {"Tagged"}
    [] OTHER        -> {}

\* lib.ModAddDeps(fileHead, false): versions of the repositories parsed
\* earlier in the chain that r requires
ModAddDepsReads(ch, i) == {ch[j] : j \in 1..(i - 1)}

\* A collaborator call on r: it completes and sets its flag, or it fails
\* and an error is recorded
Outcome(r, s) ==
  \E ok \in BOOLEAN :
     IF ok
     THEN /\ flags' = [flags EXCEPT ![r] = @ \cup StepFlag(s)]
          /\ errors' = errors
     ELSE /\ Len(errors) < MaxErrors
          /\ errors' = Append(errors, <<r, s>>)
          /\ flags' = flags

\* One step of the sync pipeline on r
ExecStep(r, s) ==
  /\ stepLog' = [stepLog EXCEPT ![r] = Append(@, s)]
  /\ readFrom' = IF s = "merge"
                 THEN [readFrom EXCEPT ![r] = ModAddDepsReads(chain, itr)]
                 ELSE readFrom
  /\ Outcome(r, s)

Live == ~exited

\* ------------------------------------------------------------------- Init
Init ==
  /\ action \in Actions
  /\ ignoreWarning \in BOOLEAN
  /\ version \in [Repos -> BOOLEAN]
  /\ deps \in DepGraphs
  /\ filter \in Filters
  /\ allDirs = <<>>
  /\ chain = <<>>
  /\ depCount = 0
  /\ flags = [r \in Repos |-> {}]
  /\ errors = <<>>
  /\ closed = FALSE
  /\ closerMade = FALSE
  /\ closerClosed = FALSE
  /\ exited = FALSE
  /\ pc = "idle"
  /\ itr = 1
  /\ idx = 1
  /\ swg = 0
  /\ callerPc = "run"
  /\ cleanArg = <<>>
  /\ cleanIdx = 1
  /\ answer = "unasked"
  /\ exitPath = ""
  /\ stashCount = [r \in Repos |-> 0]
  /\ restoreCount = [r \in Repos |-> 0]
  /\ startCount = [r \in Repos |-> 0]
  /\ endCount = [r \in Repos |-> 0]
  /\ skipped = {}
  /\ stepLog = [r \in Repos |-> <<>>]
  /\ readFrom = [r \in Repos |-> {}]
  /\ listed = <<>>
  /\ callbacks = 0

\* ------------------------------------------------------- the caller thread
\* Run, lines 47-52: create the closer, start performThenClose
RunStart ==
  /\ Live /\ callerPc = "run"
  /\ closerMade' = TRUE
  /\ pc' = "auth"
  /\ callerPc' = "waiting"
  /\ UNCHANGED <<optVars, muVars, closed, closerClosed, exited, itr, idx, swg,
                 answer, exitPath, cleanArg, cleanIdx, callbacks, histVars>>

\* waitThenClean, lines 68-77: closer.Wait() returns, cleanupStash is
\* called with mu.AllDirectories as it is read at that moment
WaitReturn ==
  /\ Live /\ callerPc = "waiting" /\ closerClosed
  /\ cleanArg' = allDirs
  /\ cleanIdx' = 1
  /\ callerPc' = "cleaning"
  /\ UNCHANGED <<optVars, muVars, syncVars, perfVars, callbacks, histVars>>

\* cleanupStash called by waitThenClean: restore one repository
CleanOne ==
  /\ Live /\ callerPc = "cleaning" /\ cleanIdx <= Len(cleanArg)
  /\ restoreCount' = Inc(restoreCount, cleanArg[cleanIdx])
  /\ cleanIdx' = cleanIdx + 1
  /\ UNCHANGED <<optVars, muVars, syncVars, perfVars, callerPc, cleanArg, callbacks,
                 stashCount, startCount, endCount, skipped, stepLog, readFrom, listed>>

\* waitThenClean and Run return to RunThen, lines 60-61
RunReturn ==
  /\ Live /\ callerPc = "cleaning" /\ cleanIdx > Len(cleanArg)
  /\ callerPc' = "returned"
  /\ UNCHANGED <<optVars, muVars, syncVars, perfVars, cleanArg, cleanIdx, callbacks, histVars>>

\* RunThen, line 63: complete(mu)
Callback ==
  /\ Live /\ callerPc = "returned"
  /\ callbacks' = callbacks + 1
  /\ callerPc' = "end"
  /\ UNCHANGED <<optVars, muVars, syncVars, perfVars, cleanArg, cleanIdx, histVars>>

\* ------------------------------------------------------------ environment
\* closer.New() listens for SIGINT/SIGTERM and closes the closer on one
Signal ==
  /\ Live /\ closerMade /\ ~closerClosed
  /\ closerClosed' = TRUE
  /\ UNCHANGED <<optVars, muVars, closed, closerMade, exited, perfVars, callVars, histVars>>

\* The cancellation trigger: flips the shared flag, once
Trigger ==
  /\ Live /\ closerMade /\ ~closed
  /\ closed' = TRUE
  /\ UNCHANGED <<optVars, muVars, closerMade, closerClosed, exited, perfVars, callVars, histVars>>

\* ------------------------------------------------- the orchestrator thread
\* perform returns to performThenClose
Return(path) ==
  /\ pc' = "close"
  /\ exitPath' = path

\* perform, lines 92-105: credentials for pull requests; a failing Setup
\* returns before any repository is discovered
Auth ==
  /\ Live /\ pc = "auth"
  /\ \E pullRequest \in BOOLEAN, setupFails \in BOOLEAN :
        IF pullRequest /\ setupFails
        THEN Return("cred")
        ELSE pc' = "populate" /\ exitPath' = exitPath
  /\ UNCHANGED <<optVars, muVars, syncVars, itr, idx, swg, answer, callVars, histVars>>

\* perform, lines 114-115: mu.PopulateLibsFromTargets(); libs := mu.AllDirectories
Populate ==
  /\ Live /\ pc = "populate"
  /\ allDirs' = Discovered
  /\ idx' = 1
  /\ pc' = "stash"
  /\ UNCHANGED <<optVars, chain, depCount, flags, errors, syncVars, itr, swg, answer,
                 exitPath, callVars, histVars>>

\* perform, lines 120-124: f.Stash() on the next lib
StashOne ==
  /\ Live /\ pc = "stash" /\ ~RangeDone(idx, allDirs)
  /\ stashCount' = Inc(stashCount, allDirs[idx])
  /\ idx' = idx + 1
  /\ UNCHANGED <<optVars, muVars, syncVars, pc, itr, swg, answer, exitPath, callVars,
                 restoreCount, startCount, endCount, skipped, stepLog, readFrom, listed>>

\* perform, lines 132-139: sort the libs into the chain and count them
Sort ==
  /\ Live /\ pc = "stash" /\ RangeDone(idx, allDirs)
  /\ chain' = SortedDeps(allDirs, deps, filter)
  /\ depCount' = DepCountOf(allDirs, chain')
  /\ itr' = 1
  /\ pc' = IF action = "sync" THEN "warn" ELSE "loop"
  /\ UNCHANGED <<optVars, allDirs, flags, errors, syncVars, idx, swg, answer, exitPath,
                 callVars, histVars>>

\* perform, lines 151-185: the sync warning and its confirmation
Confirm ==
  /\ Live /\ pc = "warn"
  /\ \E ans \in {"yes", "no"} :
        /\ answer' = IF ignoreWarning THEN answer ELSE ans
        /\ IF WarningDeclined(ignoreWarning, ans)
           THEN pc' = "declineClean" /\ idx' = 1
           ELSE pc' = "loop" /\ idx' = idx
  /\ UNCHANGED <<optVars, muVars, syncVars, itr, swg, exitPath, callVars, histVars>>

\* perform, line 183: cleanupStash(libs), one repository
DeclineCleanOne ==
  /\ Live /\ pc = "declineClean" /\ idx <= Len(allDirs)
  /\ restoreCount' = Inc(restoreCount, allDirs[idx])
  /\ idx' = idx + 1
  /\ UNCHANGED <<optVars, muVars, syncVars, pc, itr, swg, answer, exitPath, callVars,
                 stashCount, startCount, endCount, skipped, stepLog, readFrom, listed>>

\* perform, line 184: os.Exit(-1) ends every thread of the process
DeclineExit ==
  /\ Live /\ pc = "declineClean" /\ idx > Len(allDirs)
  /\ exited' = TRUE
  /\ exitPath' = "decline"
  /\ pc' = "exit"
  /\ UNCHANGED <<optVars, muVars, closed, closerMade, closerClosed, itr, idx, swg, answer,
                 callVars, histVars>>

\* perform, lines 193-200 and 328: the loop is over, or closed was seen
LoopEnd ==
  /\ Live /\ pc = "loop"
  /\ itr > Len(chain) \/ closed
  /\ pc' = IF itr > Len(chain) THEN "wait" ELSE "cancelWait"
  /\ UNCHANGED <<optVars, muVars, syncVars, itr, idx, swg, answer, exitPath, callVars, histVars>>

\* perform, lines 198-199 and 328: waiter.Wait(), then perform returns
WaitPool ==
  /\ Live /\ pc \in {"wait", "cancelWait"}
  /\ SwgDrained(swg)
  /\ Return(IF pc = "wait" THEN "normal" ELSE "cancel")
  /\ UNCHANGED <<optVars, muVars, syncVars, itr, idx, swg, answer, callVars, histVars>>

\* Variant: index is incremented after the line is printed
ListLineZeroBased(i, n, r) == <<i - 1, n, r>>

\* perform, lines 191-204: index is incremented first, then
\* "(index / DepCount) path" is printed for the i-th node
ListLine(i, n, r) == <<i, n, r>>

\* perform, lines 202-206: the list action prints and continues
ListOne ==
  /\ Live /\ pc = "loop" /\ itr <= Len(chain) /\ ~closed
  /\ action = "list"
  /\ listed' = Append(listed, ListLine(itr, depCount, chain[itr]))
  /\ itr' = itr + 1
  /\ UNCHANGED <<optVars, muVars, syncVars, pc, idx, swg, answer, exitPath, callVars,
                 stashCount, restoreCount, startCount, endCount, skipped, stepLog, readFrom>>

\* waiter.Add() has a slot and go func starts the task on chain[itr]
StartTask ==
  /\ swg' = swg + 1
  /\ startCount' = Inc(startCount, chain[itr])
  /\ itr' = itr + 1
  /\ pc' = "loop"

\* perform, lines 196-228, 237-247, 255-267: closed is not set and the
\* action goes to the pool; waiter.Add() blocks when the pool is full
Dispatch ==
  /\ Live /\ pc = "loop" /\ itr <= Len(chain) /\ ~closed
  /\ IsIndependent(action)
  /\ IF SwgCanAdd(swg)
     THEN StartTask
     ELSE pc' = "add" /\ UNCHANGED <<swg, startCount, itr>>
  /\ UNCHANGED <<optVars, muVars, syncVars, idx, answer, exitPath, callVars,
                 stashCount, restoreCount, endCount, skipped, stepLog, readFrom, listed>>

\* perform, lines 214, 237, 255: the blocked waiter.Add() gets a slot
AddUnblocked ==
  /\ Live /\ pc = "add"
  /\ SwgCanAdd(swg)
  /\ StartTask
  /\ UNCHANGED <<optVars, muVars, syncVars, idx, answer, exitPath, callVars,
                 stashCount, restoreCount, endCount, skipped, stepLog, readFrom, listed>>

\* Variant: a pool task that ends without waiter.Done()
TaskFinishNoDone(r) ==
  /\ Live /\ startCount[r] > endCount[r]
  /\ IsIndependent(action)
  /\ IF action = "pull" /\ IsPinned(r)
     THEN flags' = flags /\ errors' = errors
     ELSE Outcome(r, action)
  /\ endCount' = Inc(endCount, r)
  /\ UNCHANGED <<optVars, allDirs, chain, depCount, syncVars, pc, itr, idx, swg, answer, exitPath,
                 callVars, stashCount, restoreCount, startCount, skipped, stepLog, readFrom, listed>>

\* perform, lines 215-227, 238-246, 256-266: a pool task runs to waiter.Done()
TaskFinish(r) ==
  /\ Live /\ startCount[r] > endCount[r]
  /\ IsIndependent(action)
  /\ IF action = "pull" /\ IsPinned(r)
     THEN flags' = flags /\ errors' = errors
     ELSE Outcome(r, action)
  /\ endCount' = Inc(endCount, r)
  /\ swg' = swg - 1
  /\ UNCHANGED <<optVars, allDirs, chain, depCount, syncVars, pc, itr, idx, answer, exitPath,
                 callVars, stashCount, restoreCount, startCount, skipped, stepLog, readFrom, listed>>

\* perform, lines 229-233 and 248-251: a replace or test unit begins
UnitBegin ==
  /\ Live /\ pc = "loop" /\ itr <= Len(chain) /\ ~closed
  /\ IsSequentialUnit(action)
  /\ startCount' = Inc(startCount, chain[itr])
  /\ pc' = "unit"
  /\ UNCHANGED <<optVars, muVars, syncVars, itr, idx, swg, answer, exitPath, callVars,
                 stashCount, restoreCount, endCount, skipped, stepLog, readFrom, listed>>

\* perform, lines 234-235 and 252-253: mu.replace / mu.test returns
UnitEnd ==
  /\ Live /\ pc = "unit"
  /\ Outcome(chain[itr], action)
  /\ endCount' = Inc(endCount, chain[itr])
  /\ itr' = itr + 1
  /\ pc' = "loop"
  /\ UNCHANGED <<optVars, allDirs, chain, depCount, syncVars, idx, swg, answer, exitPath,
                 callVars, stashCount, restoreCount, startCount, skipped, stepLog, readFrom, listed>>

\* perform, lines 268-271: secrets are unsupported, perform returns
Secret ==
  /\ Live /\ pc = "loop" /\ itr <= Len(chain) /\ ~closed
  /\ action = "secret"
  /\ Return("secret")
  /\ UNCHANGED <<optVars, muVars, syncVars, itr, idx, swg, answer, callVars, histVars>>

\* perform, lines 279-282: a pinned repository is skipped by sync
SyncSkip ==
  /\ Live /\ pc = "loop" /\ itr <= Len(chain) /\ ~closed
  /\ action = "sync"
  /\ IsPinned(chain[itr])
  /\ skipped' = skipped \cup {chain[itr]}
  /\ itr' = itr + 1
  /\ UNCHANGED <<optVars, muVars, syncVars, pc, idx, swg, answer, exitPath, callVars,
                 stashCount, restoreCount, startCount, endCount, stepLog, readFrom, listed>>

\* perform, lines 196-285: closed is not set, mu.updateOrCreateBranch(lib)
SyncBranch ==
  /\ Live /\ pc = "loop" /\ itr <= Len(chain) /\ ~closed
  /\ action = "sync"
  /\ ~IsPinned(chain[itr])
  /\ startCount' = Inc(startCount, chain[itr])
  /\ ExecStep(chain[itr], "branch")
  /\ pc' = StepAfter("branch")
  /\ UNCHANGED <<optVars, allDirs, chain, depCount, syncVars, itr, idx, swg, answer, exitPath,
                 callVars, stashCount, restoreCount, endCount, skipped, listed>>

\* perform, lines 287-325: the check before step s (where the code has
\* one), then step s; after the last step the loop goes on
SyncStep(s) ==
  /\ Live /\ pc = s
  /\ IF CheckedBefore(s) /\ closed
     THEN /\ Return("cancel")
          /\ UNCHANGED <<flags, errors, itr, endCount, stepLog, readFrom>>
     ELSE /\ ExecStep(chain[itr], s)
          /\ pc' = StepAfter(s)
          /\ exitPath' = exitPath
          /\ IF StepAfter(s) = "loop"
             THEN itr' = itr + 1 /\ endCount' = Inc(endCount, chain[itr])
             ELSE itr' = itr /\ endCount' = endCount
  /\ UNCHANGED <<optVars, allDirs, chain, depCount, syncVars, idx, swg, answer, callVars,
                 stashCount, restoreCount, startCount, skipped, listed>>

\* performThenClose, lines 84-86: close the closer; a closer that was
\* closed already makes Close return false and an error is recorded
PerformClose ==
  /\ Live /\ pc = "close"
  /\ closerClosed' = TRUE
  /\ errors' = IF closerClosed THEN Append(errors, <<0, "close">>) ELSE errors
  /\ pc' = "done"
  /\ UNCHANGED <<optVars, allDirs, chain, depCount, flags, closed, closerMade, exited,
                 itr, idx, swg, answer, exitPath, callVars, histVars>>

\* ------------------------------------------------------------------- Next
Next ==
  \/ RunStart
  \/ WaitReturn
  \/ CleanOne
  \/ RunReturn
  \/ Callback
  \/ Signal
  \/ Trigger
  \/ Auth
  \/ Populate
  \/ StashOne
  \/ Sort
  \/ Confirm
  \/ DeclineCleanOne
  \/ DeclineExit
  \/ LoopEnd
  \/ WaitPool
  \/ ListOne
  \/ Dispatch
  \/ AddUnblocked
  \/ \E r \in Repos : TaskFinish(r)
  \/ UnitBegin
  \/ UnitEnd
  \/ Secret
  \/ SyncSkip
  \/ SyncBranch
  \/ \E s \in {"merge", "commit", "push", "pr", "rmbranch", "tag"} : SyncStep(s)
  \/ PerformClose

Spec == Init /\ [][Next]_vars

\* the steps of the caller thread
CallerNext == RunStart \/ WaitReturn \/ CleanOne \/ RunReturn \/ Callback

\* the steps of the orchestrator goroutine
OrchestratorNext ==
  \/ Auth \/ Populate \/ StashOne \/ Sort \/ Confirm \/ DeclineCleanOne \/ DeclineExit
  \/ LoopEnd \/ WaitPool \/ ListOne \/ Dispatch \/ AddUnblocked
  \/ UnitBegin \/ UnitEnd \/ Secret \/ SyncSkip \/ SyncBranch
  \/ \E s \in {"merge", "commit", "push", "pr", "rmbranch", "tag"} : SyncStep(s)
  \/ PerformClose

\* The runs checked for termination: nothing pinned, the first repository
\* pinned, or all pinned; every dependency graph; no filter
FairInit ==
  /\ Init
  /\ version \in {[r \in Repos |-> FALSE], [r \in Repos |-> r = 1], [r \in Repos |-> TRUE]}
  /\ filter = {}

\* Every thread that can take a step eventually takes one, and every
\* collaborator call returns; signals and the cancellation trigger may or
\* may not come.
FairSpec ==
  /\ FairInit /\ [][Next]_vars
  /\ WF_vars(CallerNext)
  /\ WF_vars(OrchestratorNext)
  /\ \A r \in Repos : WF_vars(TaskFinish(r))

TypeOK ==
  /\ action \in Actions
  /\ swg \in 0..NumRepos
  /\ itr \in 1..(NumRepos + 1)

\* ----------------------------------------------------------- properties
\* position of r in the chain, 0 when the chain does not hold r
Pos(r) == IF r \in Range(chain) THEN CHOOSE i \in 1..Len(chain) : chain[i] = r ELSE 0

OrderCoupled == {"sync", "replace", "test"}

\* a unit (pool task, replace/test unit, sync pipeline) of r is in
\* progress; a pipeline abandoned by a cancelled perform is not
Running(r) ==
  /\ startCount[r] > endCount[r]
  /\ action \in OrderCoupled => pc \notin {"close", "done"}

RunningSet == {r \in Repos : Running(r)}

IsPrefix(s, t) == Len(s) <= Len(t) /\ \A i \in 1..Len(s) : s[i] = t[i]

\* the process has ended, or both threads of the run have
RunOver == exited \/ (callerPc \in {"returned", "end"} /\ pc = "done")

\* C1: on every exit path restore is invoked exactly once for every
\* discovered repository: never twice, and once when the run is over.
C1_RestoreExactlyOnce ==
  /\ \A r \in Repos : restoreCount[r] <= 1
  /\ RunOver => \A r \in Range(allDirs) : restoreCount[r] = 1

\* C2: when RunThen's callback is invoked (once, after cleanup) the
\* orchestrator thread has terminated and no pool task is in flight, so the
\* state handed to the callback is final.
C2_CallbackSeesFinalState ==
  callbacks > 0 =>
     /\ callbacks = 1
     /\ cleanIdx > Len(cleanArg)
     /\ pc = "done"
     /\ swg = 0

\* C3: for an independent action the number of pool tasks started and not
\* yet finished never exceeds the pool bound.
C3_BoundedPool ==
  IsIndependent(action) => Cardinality(RunningSet) <= PoolBound

C3_Witness ==
  /\ action \in {"pull", "reset", "workflow"}
  /\ Cardinality(RunningSet) = PoolBound
  /\ NumRepos > PoolBound => pc = "add"

\* C4: for an independent action, once perform has returned no task is
\* running, no repository was dispatched twice, and on normal completion
\* every repository of the chain was dispatched once and has completed.
C4_ReturnsAfterTasks ==
  (action \in {"pull", "reset", "workflow"} /\ pc \in {"close", "done"}) =>
     /\ RunningSet = {}
     /\ \A r \in Repos : startCount[r] <= 1
     /\ exitPath = "normal" =>
           /\ \A r \in Range(chain) : startCount[r] = 1 /\ endCount[r] = 1

C4_Witness ==
  /\ action \in {"pull", "reset", "workflow"}
  /\ pc = "close"
  /\ exitPath = "cancel"
  /\ \E r \in Repos : endCount[r] = 1
  /\ \E r \in Repos : startCount[r] = 0

\* C5: order-coupled actions never use the pool, process at most one
\* repository at a time, and start the repository at position i+1 only
\* after the repository at position i has ended (or was skipped).
C5_Sequential ==
  action \in OrderCoupled =>
     /\ swg = 0
     /\ Cardinality(RunningSet) <= 1
     /\ \A i \in 1..(Len(chain) - 1) :
           startCount[chain[i + 1]] > 0 =>
              \/ chain[i] \in skipped
              \/ startCount[chain[i]] = 1 /\ endCount[chain[i]] = 1

C5_Witness ==
  /\ action \in OrderCoupled
  /\ itr = 2
  /\ pc \in {"unit", "commit"}
  /\ Running(chain[2])
  /\ endCount[chain[1]] = 1

C7_NothingStartsOnceClosed ==
  [][closed => (stepLog' = stepLog /\ startCount' = startCount)]_vars

\* C8: declining the sync warning runs no pipeline step on any repository
\* and restores every repository before the process ends; the decline path
\* is taken only when the warning is not waived and the reply is no.
C8_DeclineGoesToCleanup ==
  action = "sync" =>
     /\ (~ignoreWarning /\ answer = "no") =>
           /\ pc \in {"declineClean", "exit"}
           /\ \A r \in Repos : stepLog[r] = <<>> /\ startCount[r] = 0 /\ r \notin skipped
           /\ pc = "exit" => \A r \in Range(allDirs) : restoreCount[r] >= 1
     /\ pc \in {"declineClean", "exit"} => (~ignoreWarning /\ answer = "no")
     /\ (\E r \in Repos : stepLog[r] # <<>>) => (ignoreWarning \/ answer = "yes")

C8_Witness ==
  /\ action = "sync" /\ answer = "no" /\ pc = "exit" /\ exited
  /\ \A r \in Repos : stashCount[r] = 1 /\ restoreCount[r] = 1

\* C9: the steps run on a repository are always a prefix of the pipeline
\* branch, merge, commit, push, pr, rmbranch, tag, and a repository whose
\* processing ended ran exactly that pipeline.
C9_PipelineOrder ==
  \A r \in Repos :
     /\ IsPrefix(stepLog[r], Pipeline)
     /\ (action = "sync" /\ endCount[r] > 0) => stepLog[r] = Pipeline

C9_Witness ==
  \E r \in Repos : stepLog[r] = Pipeline /\ endCount[r] = 1

\* C10: sync runs no step on a pinned repository, changes none of its
\* flags, records no error for it, and goes on with the next repository.
C10_PinnedSkipped ==
  action = "sync" =>
     \A r \in Repos :
        version[r] =>
           /\ stepLog[r] = <<>>
           /\ startCount[r] = 0
           /\ flags[r] = {}
           /\ \A k \in 1..Len(errors) : errors[k][1] # r
           /\ r \in skipped => itr > Pos(r)

C10_Witness ==
  /\ action = "sync"
  /\ \E r \in skipped : \E q \in Repos :
        q \in Range(chain) /\ Pos(q) > Pos(r) /\ stepLog[q] = Pipeline /\ flags[q] # {}

\* the step of r's pipeline that recorded error k
FailedStep(k) == errors[k][2]

\* s comes after t in the pipeline
LaterStep(s, t) ==
  \E i, j \in 1..Len(Pipeline) : Pipeline[i] = t /\ Pipeline[j] = s /\ j > i

\* C11: when a step of a repository's pipeline has failed, none of the
\* steps that follow it in the pipeline is executed on that repository, and
\* a run that was not cancelled still processes every repository of the chain.
C11_FailureStopsPipeline ==
  action = "sync" =>
     /\ \A k \in 1..Len(errors) :
           errors[k][1] \in Repos =>
              \A n \in 1..Len(stepLog[errors[k][1]]) :
                 ~LaterStep(stepLog[errors[k][1]][n], FailedStep(k))
     /\ exitPath = "normal" =>
           \A r \in Range(chain) : r \in skipped \/ startCount[r] = 1

\* the lines a complete list run prints: k / DepCount for the k-th repository
ListLines == [k \in 1..Len(chain) |-> <<k, depCount, chain[k]>>]

PastStash == pc \notin {"idle", "auth", "populate", "stash"}

\* a cleanupStash call has begun
CleanupBegun ==
  callerPc \in {"cleaning", "returned", "end"} \/ pc \in {"declineClean", "exit"}

CallerReadsErrors == Live /\ callerPc = "waiting" /\ closerClosed

\* performThenClose, lines 84-85: Close will return false and the
\* orchestrator appends to mu.Errors next
OrchestratorWritesErrors == Live /\ pc = "close" /\ closerClosed

\* C14: mu.Errors is never read by the released caller at a moment when
\* the orchestrator is about to append to it (nothing orders the two).
C14_ErrorsSynchronized ==
  ~(CallerReadsErrors /\ OrchestratorWritesErrors)

\* C15: in the chain every dependency stands before its dependent, and no
\* repository stands in it twice.
C15_TopologicalChain ==
  /\ \A i, j \in 1..Len(chain) : chain[j] \in deps[chain[i]] => j < i
  /\ \A i, j \in 1..Len(chain) : chain[i] = chain[j] => i = j

C15_Witness ==
  /\ deps = LineDeps /\ filter = {}
  /\ Len(chain) = NumRepos
  /\ chain[1] = NumRepos /\ chain[NumRepos] = 1

\* the repositories that lie on a dependency cycle
CycleMembers(d) == {r \in Repos : r \in Dependents(d, {r}, {})}

\* C16: when the dependencies hold a cycle, the graph build reports a
\* cycle error and no action is run on any repository.
C16_CycleReported ==
  (CycleMembers(deps) # {} /\ PastStash /\ exitPath # "cred") =>
     /\ \E k \in 1..Len(errors) : errors[k][2] = "cycle"
     /\ listed = <<>>
     /\ \A r \in Repos : startCount[r] = 0 /\ stepLog[r] = <<>>

C18_CleanupAfterPerform ==
  (callerPc = "cleaning" /\ cleanArg # <<>>) => (pc \in {"close", "done"} /\ swg = 0)

\* C19: a repository is restored only after it was shelved, and when the
\* run is over the repositories restored are the repositories shelved.
C19_ShelveRestoreBalanced ==
  /\ \A r \in Repos : restoreCount[r] > 0 => stashCount[r] > 0
  /\ RunOver => {r \in Repos : restoreCount[r] > 0} = {r \in Repos : stashCount[r] > 0}

\* the run is over: the process exited on the decline path, or the closer
\* is closed, cleanup has run, Run has returned, the orchestrator has
\* terminated and no pool task is left
RunDone ==
  \/ exited /\ exitPath = "decline"
  \/ /\ closerClosed
     /\ callerPc \in {"returned", "end"}
     /\ cleanIdx > Len(cleanArg)
     /\ pc = "done"
     /\ swg = 0

\* C20: under fair scheduling every run is eventually over.
C20_RunTerminates == <>RunDone

C20_Witness ==
  /\ RunDone /\ ~exited
  /\ exitPath = "cancel"
  /\ action \in {"pull", "reset", "workflow"}
  /\ \E r \in Repos : endCount[r] = 1

====
